---- MODULE Spec2Model ----
(***************************************************************************)
(* Packet analyzer core: PacketParser (backend/src/parser.py) and          *)
(* ThreatDetector (backend/src/threat_detector.py), driven in the order    *)
(* analyze_pcap (backend/main.py) calls them.                              *)
(*                                                                         *)
(* Representation of Python values:                                        *)
(*   - a dict is a function/record; a key that is absent is absent from    *)
(*     its DOMAIN, and Get(d, k, default) is d.get(k, default);            *)
(*   - None is the string "None" for string-valued slots and NonePort for  *)
(*     port slots (TLC cannot compare a string with a number);             *)
(*   - a Counter / insertion-ordered dict whose iteration order the code   *)
(*     depends on is a sequence of <<key, value>> pairs in insertion order;*)
(*   - a DNS query name is represented by its length, the only thing the   *)
(*     code reads of it (len(q));                                          *)
(*   - a value rounded to d decimals is the integer number of 10^-d units; *)
(*   - the f-string 'description' of a threat is a function of the other   *)
(*     fields of the record and is not carried.                            *)
(***************************************************************************)
EXTENDS Integers, Sequences, FiniteSets, TLC

VARIABLES
    parser_packets,   \* PacketParser.packets: the capture as rdpcap loaded it
    packet_data,      \* PacketParser.packet_data
    flows,            \* PacketParser.flows
    statistics,       \* PacketParser.statistics
    threats,          \* ThreatDetector.threats
    risk_score,       \* ThreatDetector.risk_score
    lookups,          \* the reverse lookups analyze made in this pass, in order
    ret,              \* what each call of the current pass returned, by name
    prev,             \* what each call of the previous pass returned
    pass,             \* number of the pass over the same parser and detector
    error,            \* the exception a call let escape, or "none"
    pc,               \* position in the pipeline of analyze_pcap
    tmp_file,         \* the request's temporary capture file, and tmp_path
    default_timeout,  \* socket's process-wide default timeout
    calls             \* each concurrent caller's position in resolve_ip_to_domain

vars == <<parser_packets, packet_data, flows, statistics, threats, risk_score,
          lookups, ret, prev, pass, error, pc, tmp_file, default_timeout, calls>>

---------------------------------------------------------------------------
(* Python values *)

None == "None"
NonePort == -1
EmptyDict == [k \in {} |-> 0]

Get(d, k, default) == IF k \in DOMAIN d THEN d[k] ELSE default
TruthyStr(s) == s # None /\ s # ""
TruthyInt(n) == n # NonePort /\ n # 0

Min(a, b) == IF a <= b THEN a ELSE b
Max(a, b) == IF a >= b THEN a ELSE b
Range(s) == {s[i] : i \in DOMAIN s}
Take(s, n) == SubSeq(s, 1, Min(n, Len(s)))

IdxSeq(s) == [i \in DOMAIN s |-> i]

(* sum(s[lo..hi]), halving the range *)
RECURSIVE SumRange(_, _, _)
SumRange(s, lo, hi) ==
    IF lo > hi THEN 0
    ELSE IF lo = hi THEN s[lo]
    ELSE LET mid == (lo + hi) \div 2
         IN  SumRange(s, lo, mid) + SumRange(s, mid + 1, hi)

SeqSum(s) == SumRange(s, 1, Len(s))

RECURSIVE ConcatRange(_, _, _)
ConcatRange(ss, lo, hi) ==
    IF lo > hi THEN <<>>
    ELSE IF lo = hi THEN ss[lo]
    ELSE LET mid == (lo + hi) \div 2
         IN  ConcatRange(ss, lo, mid) \o ConcatRange(ss, mid + 1, hi)

Concat(ss) == ConcatRange(ss, 1, Len(ss))

(* sorted(S) for a set of numbers *)
SortedAsc(S) ==
    [i \in 1..Cardinality(S) |-> CHOOSE x \in S : Cardinality({y \in S : y < x}) = i - 1]

(* the keys of a dict filled by iterating over keys: first-insertion order *)
KeysInOrder(keys) ==
    LET first == SelectSeq(IdxSeq(keys), LAMBDA i : \A j \in 1..(i - 1) : keys[j] # keys[i])
    IN  [m \in DOMAIN first |-> keys[first[m]]]

(* Counter filled by counter[k] += 1 for k in keys, as <<key, count>> pairs *)
CounterOf(keys) ==
    LET ks == KeysInOrder(keys)
    IN  [m \in DOMAIN ks |-> <<ks[m], Cardinality({i \in DOMAIN keys : keys[i] = ks[m]})>>]

(* dict filled in a loop over items: <<key, the items of that key, in order>> *)
GroupBy(items, keys) ==
    LET ks == KeysInOrder(keys)
    IN  [m \in DOMAIN ks |->
            <<ks[m], LET idx == SelectSeq(IdxSeq(items), LAMBDA i : keys[i] = ks[m])
                     IN  [n \in DOMAIN idx |-> items[idx[n]]]>>]

CKeys(c) == [i \in DOMAIN c |-> c[i][1]]
CGet(c, k) == IF \E i \in DOMAIN c : c[i][1] = k
              THEN c[CHOOSE i \in DOMAIN c : c[i][1] = k][2] ELSE 0

(* round(num / den, 1 or 2) as an integer number of 1/scale units, half to even *)
RoundDiv(num, den, scale) ==
    LET q == (num * scale) \div den
        r == (num * scale) % den
    IN  IF 2 * r > den \/ (2 * r = den /\ q % 2 = 1) THEN q + 1 ELSE q

---------------------------------------------------------------------------
(* Addresses and their order under Python's sorted() on strings *)

AddrOrder == <<"10.0.0.1", "10.0.0.2", "10.0.0.3">>
Addrs == Range(AddrOrder)
Rank(a) == CHOOSE i \in DOMAIN AddrOrder : AddrOrder[i] = a
SortedPair(a, b) == IF Rank(a) <= Rank(b) THEN <<a, b>> ELSE <<b, a>>

---------------------------------------------------------------------------
(* PacketParser *)

(* A packet as scapy dissected it: its layer names outer to inner, and the  *)
(* fields of the layers it has (a field of a layer it lacks is never read). *)
RawPacket(time, len, layers, src, dst, sport, dport, qd, load) ==
    [time |-> time, len |-> len, layers |-> layers, src |-> src, dst |-> dst,
     sport |-> sport, dport |-> dport, qd |-> qd, load |-> load]

haslayer(packet, name) == \E i \in DOMAIN packet.layers : packet.layers[i] = name

_get_protocols(packet) == packet.layers

_extract_dns_info(packet) == [queries |-> packet.qd, answers |-> <<>>]

(* the body of the loop of extract_packet_info up to the call of _add_flow *)
PktInfo(idx, packet) ==
    LET ip == IF haslayer(packet, "IP") THEN "IP"
              ELSE IF haslayer(packet, "IPv6") THEN "IPv6" ELSE None
        l4 == IF haslayer(packet, "TCP") THEN "TCP"
              ELSE IF haslayer(packet, "UDP") THEN "UDP"
              ELSE IF haslayer(packet, "ICMP") THEN "ICMP" ELSE None
        ported == l4 \in {"TCP", "UDP"}
        raw == haslayer(packet, "Raw")
        pkt_info ==
            [packet_num |-> idx,
             timestamp |-> packet.time,
             length |-> packet.len,
             protocols |-> _get_protocols(packet),
             src_ip |-> IF ip # None THEN packet.src ELSE None,
             dst_ip |-> IF ip # None THEN packet.dst ELSE None,
             src_port |-> IF ported THEN packet.sport ELSE NonePort,
             dst_port |-> IF ported THEN packet.dport ELSE NonePort,
             protocol |-> l4,
             payload_size |-> IF raw THEN packet.load ELSE 0,
             payload_preview |-> IF raw THEN "preview" ELSE None]
    IN  IF haslayer(packet, "DNS")
        THEN pkt_info @@ [dns_query |-> _extract_dns_info(packet)]
        ELSE pkt_info

(* the pair left in packet direction, not sorted *)
FlowKeyDirected(pkt_info) == <<pkt_info.src_ip, pkt_info.dst_ip>>

FlowKey(pkt_info) == SortedPair(pkt_info.src_ip, pkt_info.dst_ip)

HasEndpoints(pkt_info) == TruthyStr(pkt_info.src_ip) /\ TruthyStr(pkt_info.dst_ip)

(* each packet inserted at the head of its flow *)
_add_flow_at_head(fl, infos) ==
    LET grouped == SelectSeq(infos, HasEndpoints)
        keys == {FlowKey(grouped[i]) : i \in DOMAIN grouped}
        Old(k) == IF k \in DOMAIN fl THEN fl[k] ELSE <<>>
        Rev(q) == [i \in DOMAIN q |-> q[Len(q) + 1 - i]]
    IN  [k \in DOMAIN fl \cup keys |->
            Rev(SelectSeq(grouped, LAMBDA p : FlowKey(p) = k)) \o Old(k)]

(* self.flows after _add_flow(pkt_info) ran for each of infos, in order *)
_add_flow(fl, infos) ==
    LET grouped == SelectSeq(infos, HasEndpoints)
        keys == {FlowKey(grouped[i]) : i \in DOMAIN grouped}
        Old(k) == IF k \in DOMAIN fl THEN fl[k] ELSE <<>>
    IN  [k \in DOMAIN fl \cup keys |->
            Old(k) \o SelectSeq(grouped, LAMBDA p : FlowKey(p) = k)]

ExtractedInfos(pkts) == [i \in DOMAIN pkts |-> PktInfo(i - 1, pkts[i])]

SetRet(name, value) == ret' = (name :> value) @@ ret

extract_packet_info ==
    /\ pc = "parsed"
    /\ IF parser_packets = <<>>
       THEN /\ SetRet("packets", <<>>)
            /\ UNCHANGED <<packet_data, flows>>
       ELSE /\ packet_data' = packet_data \o ExtractedInfos(parser_packets)
            /\ flows' = _add_flow(flows, ExtractedInfos(parser_packets))
            /\ SetRet("packets", packet_data')
    /\ pc' = "extracted"
    /\ UNCHANGED <<parser_packets, statistics, threats, risk_score, lookups, tmp_file,
                   default_timeout, calls, prev, pass, error>>

(* sorted(items, key=count, reverse=True): stable, ties keep insertion order *)
SortDesc(c) ==
    LET Pos(i) == 1 + Cardinality({j \in DOMAIN c :
                        c[j][2] > c[i][2] \/ (c[j][2] = c[i][2] /\ j < i)})
    IN  [p \in DOMAIN c |-> c[CHOOSE i \in DOMAIN c : Pos(i) = p]]

most_common(c, n) == Take(SortDesc(c), n)

TopIps == 10
TopPorts == 15
MiB == 1048576
KiB == 1024

(* the 'if proto:' guard left out *)
CountsProtocolAlways(proto) == TRUE

CountsProtocol(proto) == TruthyStr(proto)

protocol_counts(pd) ==
    CounterOf(SelectSeq([i \in DOMAIN pd |-> Get(pd[i], "protocol", None)],
                        CountsProtocol))

protocol_breakdown(pd) ==
    LET pcs == protocol_counts(pd)
    IN  [i \in DOMAIN pcs |->
            <<pcs[i][1], [count |-> pcs[i][2],
                          percentage |-> RoundDiv(pcs[i][2] * 100, Len(pd), 10)]>>]

HasDnsQuery(p) == "dns_query" \in DOMAIN p

Statistics(pd, fl) ==
    IF pd = <<>> THEN EmptyDict
    ELSE
    LET total_packets == Len(pd)
        lengths == [i \in DOMAIN pd |-> pd[i].length]
        total_size == SeqSum(lengths)
        protos == [i \in DOMAIN pd |-> Get(pd[i], "protocol", None)]
        NumProto(x) == Len(SelectSeq(protos, LAMBDA q : q = x))
        src_ips == CounterOf(SelectSeq([i \in DOMAIN pd |-> pd[i].src_ip], TruthyStr))
        dst_ips == CounterOf(SelectSeq([i \in DOMAIN pd |-> pd[i].dst_ip], TruthyStr))
        ports_used ==
            CounterOf(Concat([i \in DOMAIN pd |->
                (IF TruthyInt(pd[i].dst_port) THEN <<pd[i].dst_port>> ELSE <<>>) \o
                (IF TruthyInt(pd[i].src_port) THEN <<pd[i].src_port>> ELSE <<>>)]))
    IN  [total_packets |-> total_packets,
         total_size_bytes |-> total_size,
         total_size_mb |-> RoundDiv(total_size, MiB, 100),
         average_packet_size |-> RoundDiv(total_size, total_packets, 100),
         flows_count |-> Cardinality(DOMAIN fl),
         protocol_breakdown |-> protocol_breakdown(pd),
         tcp_packets |-> NumProto("TCP"),
         tcp_percentage |-> RoundDiv(NumProto("TCP") * 100, total_packets, 10),
         udp_packets |-> NumProto("UDP"),
         udp_percentage |-> RoundDiv(NumProto("UDP") * 100, total_packets, 10),
         icmp_packets |-> NumProto("ICMP"),
         icmp_percentage |-> RoundDiv(NumProto("ICMP") * 100, total_packets, 10),
         layer_protocols |-> CounterOf(Concat([i \in DOMAIN pd |-> pd[i].protocols])),
         unique_source_ips |-> Len(src_ips),
         unique_dest_ips |-> Len(dst_ips),
         unique_ips_total |-> Cardinality(Range(CKeys(src_ips)) \cup Range(CKeys(dst_ips))),
         top_ips_src |-> most_common(src_ips, TopIps),
         top_ips_dst |-> most_common(dst_ips, TopIps),
         unique_ports |-> Len(ports_used),
         top_ports |-> most_common(ports_used, TopPorts),
         dns_queries |-> Len(SelectSeq(pd, HasDnsQuery)),
         largest_packet |-> CHOOSE m \in Range(lengths) : \A n \in Range(lengths) : n <= m,
         smallest_packet |-> CHOOSE m \in Range(lengths) : \A n \in Range(lengths) : n >= m]

get_statistics ==
    /\ pc = "extracted"
    /\ SetRet("statistics", Statistics(packet_data, flows))
    /\ statistics' = IF packet_data = <<>> THEN statistics
                     ELSE Statistics(packet_data, flows)
    /\ pc' = "statistics"
    /\ UNCHANGED <<parser_packets, packet_data, flows, threats, risk_score, lookups, tmp_file,
                   default_timeout, calls, prev,
                   pass, error>>

get_flows ==
    /\ pc = "statistics"
    /\ SetRet("flows", flows)
    /\ pc' = "flows"
    /\ UNCHANGED <<parser_packets, packet_data, flows, statistics, threats,
                   risk_score, lookups, tmp_file,
                   default_timeout, calls, prev, pass, error>>

(* pkt.get('protocol', 'OTHER'): the default applies only to an absent key *)
GraphProtocol(pkt) == Get(pkt, "protocol", "OTHER")

ProtocolsOf(ps) == CounterOf([i \in DOMAIN ps |-> GraphProtocol(ps[i])])
(* the payload sizes summed instead of the lengths *)
PayloadOf(ps) == SeqSum([i \in DOMAIN ps |-> Get(ps[i], "payload_size", 0)])

SizeOf(ps) == SeqSum([i \in DOMAIN ps |-> Get(ps[i], "length", 0)])

(* connections: one entry per sorted address pair, in first-seen order *)
Connections(pd) ==
    LET ends == SelectSeq(pd, HasEndpoints)
        g == GroupBy(ends, [i \in DOMAIN ends |-> FlowKey(ends[i])])
    IN  [m \in DOMAIN g |->
            <<g[m][1], [packets |-> Len(g[m][2]),
                        protocols |-> ProtocolsOf(g[m][2]),
                        size |-> SizeOf(g[m][2])]>>]

(* only the source's entry updated *)
NodeUpdatesSourceOnly(pkt) ==
    << [ip |-> pkt.src_ip, sent |-> TRUE, pkt |-> pkt] >>

(* a packet updates its source's entry, then its destination's *)
NodeUpdates(pkt) ==
    << [ip |-> pkt.src_ip, sent |-> TRUE, pkt |-> pkt],
       [ip |-> pkt.dst_ip, sent |-> FALSE, pkt |-> pkt] >>

(* ip_stats: one entry per address, in first-seen order *)
IpStats(pd) ==
    LET ends == SelectSeq(pd, HasEndpoints)
        updates == Concat([i \in DOMAIN ends |-> NodeUpdates(ends[i])])
        g == GroupBy(updates, [i \in DOMAIN updates |-> updates[i].ip])
    IN  [m \in DOMAIN g |->
            LET us == g[m][2]
            IN  <<g[m][1],
                  [packets_sent |-> Len(SelectSeq(us, LAMBDA u : u.sent)),
                   packets_received |-> Len(SelectSeq(us, LAMBDA u : ~u.sent)),
                   protocols |-> ProtocolsOf([i \in DOMAIN us |-> us[i].pkt]),
                   total_size |-> SizeOf([i \in DOMAIN us |-> us[i].pkt])]>>]

NetworkGraph(pd) ==
    LET ip_stats == IpStats(pd)
        connections == Connections(pd)
    IN  [nodes |-> [i \in DOMAIN ip_stats |->
                      [id |-> ip_stats[i][1],
                       packets_sent |-> ip_stats[i][2].packets_sent,
                       packets_received |-> ip_stats[i][2].packets_received,
                       total_packets |-> ip_stats[i][2].packets_sent
                                         + ip_stats[i][2].packets_received,
                       protocols |-> ip_stats[i][2].protocols,
                       total_size |-> ip_stats[i][2].total_size]],
         links |-> [i \in DOMAIN connections |->
                      [source |-> connections[i][1][1],
                       target |-> connections[i][1][2],
                       packets |-> connections[i][2].packets,
                       size |-> connections[i][2].size,
                       protocols |-> connections[i][2].protocols]]]

get_network_graph_data ==
    /\ pc = "flows"
    /\ SetRet("network_graph", NetworkGraph(packet_data))
    /\ pc' = "network_graph"
    /\ UNCHANGED <<parser_packets, packet_data, flows, statistics, threats,
                   risk_score, lookups, tmp_file,
                   default_timeout, calls, prev, pass, error>>

(* Timestamps are whole seconds; bucket_size = max(1, time_range / 100) is  *)
(* carried in hundredths (bucket_size_c), the divisions being exact.        *)
MaxBuckets == 100

TimeRange(ts) ==
    LET start_time == CHOOSE m \in Range(ts) : \A n \in Range(ts) : m <= n
        end_time == CHOOSE m \in Range(ts) : \A n \in Range(ts) : m >= n
    IN  Max(1, end_time - start_time)

BucketSizeC(time_range) == Max(MaxBuckets, time_range)

BucketIdx(timestamp, start_time, bucket_size_c) ==
    ((timestamp - start_time) * MaxBuckets) \div bucket_size_c

(* a timestamp key is enough, its value 0 included *)
HasTimestampKey(pkt) == "timestamp" \in DOMAIN pkt

(* if p.get('timestamp') / if timestamp: present and not 0 *)
HasTimestamp(pkt) == Get(pkt, "timestamp", 0) # 0

(* range(int(time_range / bucket_size)): the last index left out *)
BucketCountShort(time_range, bucket_size_c) ==
    (time_range * MaxBuckets) \div bucket_size_c

(* range(int(time_range / bucket_size) + 1) *)
BucketCount(time_range, bucket_size_c) ==
    (time_range * MaxBuckets) \div bucket_size_c + 1

TimelineBuckets(pd, start_time, bucket_size_c) ==
    LET timed == SelectSeq(pd, HasTimestamp)
        g == GroupBy(timed,
                     [i \in DOMAIN timed |->
                         BucketIdx(timed[i].timestamp, start_time, bucket_size_c)])
    IN  [m \in DOMAIN g |->
            LET ps == g[m][2]
            IN  <<g[m][1],
                  [packets |-> Len(ps),
                   size |-> SizeOf(ps),
                   protocols |-> CounterOf(SelectSeq(
                       [i \in DOMAIN ps |-> Get(ps[i], "protocol", "OTHER")],
                       TruthyStr))]>>]

(* for i in range(n): if i in timeline_buckets: append the row of bucket i *)
TimelineRows(buckets, n, start_time, bucket_size_c) ==
    LET listed == SortedAsc({buckets[j][1] : j \in DOMAIN buckets} \cap 0..(n - 1))
    IN  [m \in DOMAIN listed |->
            LET i == listed[m]
                bucket == buckets[CHOOSE j \in DOMAIN buckets : buckets[j][1] = i][2]
            IN  [time_c |-> start_time * MaxBuckets + i * bucket_size_c,
                 timestamp |-> (i * bucket_size_c) \div MaxBuckets,
                 packets |-> bucket.packets,
                 size_kb |-> RoundDiv(bucket.size, KiB, 100),
                 protocols |-> bucket.protocols]]

Timeline(pd) ==
    LET stamped == SelectSeq(pd, HasTimestamp)
        timestamps == [i \in DOMAIN stamped |-> Get(stamped[i], "timestamp", 0)]
    IN  IF pd = <<>> \/ timestamps = <<>>
        THEN [timeline |-> <<>>, start_time |-> 0, end_time |-> 0]
        ELSE LET start_time == CHOOSE m \in Range(timestamps) :
                                   \A n \in Range(timestamps) : m <= n
                 end_time == CHOOSE m \in Range(timestamps) :
                                 \A n \in Range(timestamps) : m >= n
                 time_range == TimeRange(timestamps)
                 bucket_size_c == BucketSizeC(time_range)
                 buckets == TimelineBuckets(pd, start_time, bucket_size_c)
             IN  [timeline |-> TimelineRows(buckets,
                                  BucketCount(time_range, bucket_size_c),
                                  start_time, bucket_size_c),
                  start_time |-> start_time,
                  end_time |-> end_time,
                  total_duration |-> time_range]

get_timeline_data ==
    /\ pc = "network_graph"
    /\ SetRet("timeline", Timeline(packet_data))
    /\ pc' = "timeline"
    /\ UNCHANGED <<parser_packets, packet_data, flows, statistics, threats,
                   risk_score, lookups, tmp_file,
                   default_timeout, calls, prev, pass, error>>

---------------------------------------------------------------------------
(* ThreatDetector *)

SUSPICIOUS_PORTS ==
    (4444 :> "Remote shell") @@ (5555 :> "Reverse shell") @@ (6666 :> "IRC botnet")
    @@ (8888 :> "Remote access") @@ (31337 :> "Leet backdoor")
    @@ (6379 :> "Redis exploit") @@ (8080 :> "Common proxy/backdoor")
    @@ (9999 :> "Arbitrary service")

service_ports ==
    (22 :> "SSH") @@ (3389 :> "RDP") @@ (21 :> "FTP") @@ (445 :> "SMB")
    @@ (139 :> "NetBIOS")

PortScanThreshold == 5
SamplePorts == 10
SynFloodThreshold == 30
BruteForceThreshold == 10
ExfilMiB == 5
DnsVolumeThreshold == 50
LongQueryLen == 50
LongQueryReports == 3
LargePacketLen == 1000
LargeSharePct == 80
IcmpSharePct == 30
MainConcerns == 3

WeightCritical == 100
WeightHigh == 40
WeightMedium == 20
WeightLow == 5
MaxRisk == 100

(* A rule's output: the dicts it hands on, in order, each marked with      *)
(* whether it goes through _add_threat (lookup) or straight to append.     *)
Emit(threat_dict) == [threat |-> threat_dict, via_add |-> TRUE]
EmitDirect(threat_dict) == [threat |-> threat_dict, via_add |-> FALSE]

ScansPort(pkt) ==
    /\ TruthyStr(Get(pkt, "src_ip", None))
    /\ TruthyStr(Get(pkt, "dst_ip", None))
    /\ TruthyInt(Get(pkt, "dst_port", NonePort))

src_dst_ports(packets) ==
    LET scans == SelectSeq(packets, ScansPort)
        g == GroupBy(scans, [i \in DOMAIN scans |-> <<scans[i].src_ip, scans[i].dst_ip>>])
    IN  [m \in DOMAIN g |-> <<g[m][1], {g[m][2][i].dst_port : i \in DOMAIN g[m][2]}>>]

IsPortScan(ports) == Cardinality(ports) > PortScanThreshold

PortScanRecord(key, ports) ==
    [type |-> "port_scan", severity |-> "high",
     source |-> key[1], destination |-> key[2],
     ports_scanned |-> Cardinality(ports),
     sample_ports |-> Take(SortedAsc(ports), SamplePorts)]

_check_port_scanning(packets) ==
    LET d == src_dst_ports(packets)
        hits == SelectSeq(d, LAMBDA e : IsPortScan(e[2]))
    IN  [i \in DOMAIN hits |-> Emit(PortScanRecord(hits[i][1], hits[i][2]))]

CountsAsSyn(pkt) ==
    TruthyStr(Get(pkt, "src_ip", None)) /\ Get(pkt, "protocol", None) = "TCP"

(* >= written for > *)
IsSynFloodAtLeast(count) == count >= SynFloodThreshold

IsSynFlood(count) == count > SynFloodThreshold

_check_syn_flood(packets) ==
    LET syn == SelectSeq(packets, CountsAsSyn)
        syn_count == CounterOf([i \in DOMAIN syn |-> syn[i].src_ip])
        hits == SelectSeq(syn_count, LAMBDA e : IsSynFlood(e[2]))
    IN  [i \in DOMAIN hits |->
            Emit([type |-> "syn_flood", severity |-> "critical",
                  source |-> hits[i][1], packet_count |-> hits[i][2]])]

CountsAsAttempt(pkt) ==
    /\ Get(pkt, "dst_port", NonePort) \in DOMAIN service_ports
    /\ TruthyStr(Get(pkt, "src_ip", None))

(* >= written for > *)
IsBruteForceAtLeast(count) == count >= BruteForceThreshold

IsBruteForce(count) == count > BruteForceThreshold

_check_brute_force(packets) ==
    LET tries == SelectSeq(packets, CountsAsAttempt)
        failed_attempts ==
            CounterOf([i \in DOMAIN tries |-> <<tries[i].src_ip, tries[i].dst_port>>])
        hits == SelectSeq(failed_attempts, LAMBDA e : IsBruteForce(e[2]))
    IN  [i \in DOMAIN hits |->
            Emit([type |-> "brute_force", severity |-> "high",
                  source |-> hits[i][1][1], target_port |-> hits[i][1][2],
                  port_service |-> service_ports[hits[i][1][2]],
                  attempt_count |-> hits[i][2]])]

SuspiciousKey(pkt) ==
    <<Get(pkt, "src_ip", None), Get(pkt, "dst_ip", None), Get(pkt, "dst_port", NonePort)>>

IsSuspicious(pkt) == Get(pkt, "dst_port", NonePort) \in DOMAIN SUSPICIOUS_PORTS

(* the seen set never consulted *)
NeverSeen(key, seen) == FALSE

AlreadySeen(key, seen) == key \in seen

SuspiciousRecord(pkt) ==
    [type |-> "suspicious_port", severity |-> "high",
     source |-> Get(pkt, "src_ip", None),
     destination |-> Get(pkt, "dst_ip", None),
     port |-> pkt.dst_port,
     port_purpose |-> SUSPICIOUS_PORTS[pkt.dst_port]]

(* seen when the loop of _check_suspicious_ports reaches packets[i] *)
SeenBefore(packets, i) ==
    {SuspiciousKey(packets[j]) : j \in {j \in 1..(i - 1) : IsSuspicious(packets[j])}}

_check_suspicious_ports(packets) ==
    LET hits == SelectSeq(IdxSeq(packets),
                    LAMBDA i : /\ IsSuspicious(packets[i])
                               /\ ~AlreadySeen(SuspiciousKey(packets[i]),
                                               SeenBefore(packets, i)))
    IN  [m \in DOMAIN hits |-> Emit(SuspiciousRecord(packets[hits[m]]))]

CountsAsOutbound(pkt) ==
    TruthyStr(Get(pkt, "src_ip", None)) /\ Get(pkt, "payload_size", 0) # 0

outbound_data(packets) ==
    LET out == SelectSeq(packets, CountsAsOutbound)
        g == GroupBy(out, [i \in DOMAIN out |-> out[i].src_ip])
    IN  [m \in DOMAIN g |->
            <<g[m][1], SeqSum([i \in DOMAIN g[m][2] |-> Get(g[m][2][i], "payload_size", 0)])>>]

(* >= written for > *)
IsExfiltrationAtLeast(total_size) == total_size >= ExfilMiB * MiB

IsExfiltration(total_size) == total_size > ExfilMiB * MiB

_check_data_exfiltration(packets) ==
    LET out == SelectSeq(packets, CountsAsOutbound)
        outbound_counts == CounterOf([i \in DOMAIN out |-> out[i].src_ip])
        hits == SelectSeq(outbound_data(packets), LAMBDA e : IsExfiltration(e[2]))
    IN  [i \in DOMAIN hits |->
            Emit([type |-> "data_exfiltration", severity |-> "high",
                  source |-> hits[i][1],
                  data_size_mb |-> RoundDiv(hits[i][2], MiB, 100),
                  packet_count |-> CGet(outbound_counts, hits[i][1])])]

(* >= written for > *)
IsLongQueryAtLeast(q) == q >= LongQueryLen

(* len(q) > 50, a query being represented by its length *)
IsLongQuery(q) == q > LongQueryLen

(* >= written for > *)
IsDnsVolumeAtLeast(count) == count >= DnsVolumeThreshold

IsDnsVolume(count) == count > DnsVolumeThreshold

(* long_queries: (src_ip, query) for every query longer than LongQueryLen *)
LongQueriesOf(pkt) ==
    LET queries == Get(pkt.dns_query, "queries", <<>>)
        long == SelectSeq(queries, IsLongQuery)
    IN  [i \in DOMAIN long |-> <<Get(pkt, "src_ip", None), long[i]>>]

_check_dns_anomalies(packets) ==
    LET dns_packets == SelectSeq(packets, HasDnsQuery)
        long_queries == Concat([i \in DOMAIN dns_packets |-> LongQueriesOf(dns_packets[i])])
        reported == Take(long_queries, LongQueryReports)
    IN  (IF IsDnsVolume(Len(dns_packets))
         THEN <<Emit([type |-> "dns_anomaly", severity |-> "medium",
                      packet_count |-> Len(dns_packets)])>>
         ELSE <<>>)
        \o [i \in DOMAIN reported |->
              EmitDirect([type |-> "dns_exfiltration", severity |-> "medium",
                          source |-> reported[i][1],
                          query_length |-> reported[i][2]])]

(* >= written for > *)
IsMostlyLargeAtLeast(large_packets, total_packets) ==
    large_packets * 100 >= total_packets * LargeSharePct

(* large_packets > total_packets * 0.8 *)
IsMostlyLarge(large_packets, total_packets) ==
    large_packets * 100 > total_packets * LargeSharePct

_check_unusual_traffic_volume(packets) ==
    IF packets = <<>> THEN <<>>
    ELSE LET total_packets == Len(packets)
             large_packets ==
                 Len(SelectSeq(packets, LAMBDA q : Get(q, "length", 0) > LargePacketLen))
         IN  IF IsMostlyLarge(large_packets, total_packets)
             THEN <<Emit([type |-> "unusual_traffic", severity |-> "low",
                          large_packet_count |-> large_packets,
                          percentage |-> RoundDiv(large_packets * 100, total_packets, 10)])>>
             ELSE <<>>

_check_protocol_anomalies(stats) ==
    LET protocols == Get(stats, "protocol_breakdown", <<>>)
        total == SeqSum([i \in DOMAIN protocols |-> protocols[i][2].count])
        hits == SelectSeq(protocols,
                    LAMBDA e : e[1] = "ICMP" /\ total > 0
                               /\ e[2].count * 100 > IcmpSharePct * total)
    IN  [i \in DOMAIN hits |->
            Emit([type |-> "protocol_anomaly", severity |-> "medium",
                  protocol |-> hits[i][1],
                  percentage |-> RoundDiv(hits[i][2].count * 100, total, 10)])]

severity_weights ==
    [critical |-> WeightCritical, high |-> WeightHigh, medium |-> WeightMedium,
     low |-> WeightLow]

SeverityWeight(threat) ==
    LET sev == Get(threat, "severity", None)
    IN  IF sev \in DOMAIN severity_weights THEN severity_weights[sev] ELSE 0

(* the clamp left out *)
ClampMissing(score) == score

(* max written for min *)
ClampUp(score) == Max(MaxRisk, score)

Clamp(score) == Min(MaxRisk, score)

_calculate_risk_score(ths) ==
    Clamp(SeqSum([i \in DOMAIN ths |-> SeverityWeight(ths[i])]))

(* the severity read under a key the records do not have *)
SeverityOfWrongKey(threat) == Get(threat, "level", "low")

SeverityOf(threat) == Get(threat, "severity", "low")

_count_by_severity(ths) ==
    [sev \in {"critical", "high", "medium", "low"} |->
        Len(SelectSeq(ths, LAMBDA t : SeverityOf(t) = sev))]

_generate_summary(ths) ==
    LET threat_types == CounterOf([i \in DOMAIN ths |-> Get(ths[i], "type", None)])
    IN  [total_threats |-> Len(ths),
         threat_types |-> threat_types,
         critical_found |-> \E i \in DOMAIN ths : Get(ths[i], "severity", None) = "critical",
         main_concerns |-> most_common(threat_types, MainConcerns)]

(* Reverse lookup. The answer is the environment's: the name is found, or  *)
(* gethostbyaddr raises herror (not found), timeout, or another OSError     *)
(* (gaierror). An argument that is no string makes gethostbyaddr raise      *)
(* TypeError.                                                               *)
DomainNames == <<"one.example", "two.example", "three.example">>

FailureKinds == {"herror", "timeout", "oserror"}

LookupOutcomes == {"found"} \cup FailureKinds

RaisesTypeError(ip) == ip = None

(* except (socket.herror) only *)
CaughtHerrorOnly(raised) == raised = "herror"

(* except (socket.herror, socket.timeout, OSError) *)
Caught(raised) == raised \in {"herror", "timeout", "oserror"}

(* what gethostbyaddr(ip) raises under the outcome, "none" if it returns *)
Raised(ip, outcome) ==
    IF RaisesTypeError(ip) THEN "TypeError"
    ELSE IF outcome = "found" THEN "none" ELSE outcome

(* the exception resolve_ip_to_domain lets escape, "none" if it returns *)
Escapes(ip, outcome) ==
    IF Raised(ip, outcome) = "none" \/ Caught(Raised(ip, outcome))
    THEN "none" ELSE Raised(ip, outcome)

(* the value resolve_ip_to_domain returns when nothing escapes *)
resolve_ip_to_domain(ip, outcome) ==
    IF Raised(ip, outcome) = "none" THEN DomainNames[Rank(ip)] ELSE ""

(* socket.setdefaulttimeout: the default is process-wide, None at start *)
NoTimeout == -1
LookupTimeout == 1

(* Callers of resolve_ip_to_domain running at once in one process, each    *)
(* making up to MaxLookups calls. A caller remembers the default it found   *)
(* on entry and whether it left that default behind on return.              *)
Callers == {"first", "second"}
MaxLookups == 2

Idle == [at |-> "idle", before |-> NoTimeout, restored |-> TRUE, done |-> 0]

OthersUnchanged ==
    UNCHANGED <<parser_packets, packet_data, flows, statistics, threats,
                risk_score, lookups, ret, prev, pass, error, pc, tmp_file>>

(* try: socket.setdefaulttimeout(1) *)
set_timeout(t) ==
    /\ calls[t].at = "idle"
    /\ calls[t].done < MaxLookups
    /\ default_timeout' = LookupTimeout
    /\ calls' = [calls EXCEPT ![t].at = "set", ![t].before = default_timeout]
    /\ OthersUnchanged

(* socket.gethostbyaddr(ip) is entered; it holds no lock while it waits *)
lookup_starts(t) ==
    /\ calls[t].at = "set"
    /\ calls' = [calls EXCEPT ![t].at = "in_flight"]
    /\ UNCHANGED default_timeout
    /\ OthersUnchanged

(* socket.gethostbyaddr(ip) returns or raises *)
lookup_ends(t) ==
    /\ calls[t].at = "in_flight"
    /\ calls' = [calls EXCEPT ![t].at = "finally"]
    /\ UNCHANGED default_timeout
    /\ OthersUnchanged

(* finally: socket.setdefaulttimeout(None) *)
reset_timeout(t) ==
    /\ calls[t].at = "finally"
    /\ default_timeout' = NoTimeout
    /\ calls' = [calls EXCEPT ![t].at = "idle",
                              ![t].restored = (calls[t].before = NoTimeout),
                              ![t].done = @ + 1]
    /\ OthersUnchanged

NeedsLookup(e) == e.via_add /\ "source" \in DOMAIN e.threat

(* the dict _add_threat appends to self.threats *)
_add_threat(threat_dict, outcome) ==
    IF "source" \in DOMAIN threat_dict
    THEN LET domain == resolve_ip_to_domain(threat_dict.source, outcome)
         IN  IF domain # ""
             THEN threat_dict @@ [source_domain |-> domain]
             ELSE threat_dict
    ELSE threat_dict

Emissions(packets, stats) ==
    _check_port_scanning(packets) \o _check_syn_flood(packets)
    \o _check_brute_force(packets) \o _check_suspicious_ports(packets)
    \o _check_data_exfiltration(packets) \o _check_dns_anomalies(packets)
    \o _check_unusual_traffic_volume(packets) \o _check_protocol_anomalies(stats)

(* the outcome of the lookup emission n makes: by address, for a string *)
OutcomeOf(em, oc, n) ==
    IF em[n].threat.source \in DOMAIN oc THEN oc[em[n].threat.source] ELSE "none"

(* index of the first emission whose lookup lets an exception escape, 0 if none *)
FirstRaise(em, oc) ==
    LET bad == {i \in DOMAIN em :
                   /\ NeedsLookup(em[i])
                   /\ Escapes(em[i].threat.source, OutcomeOf(em, oc, i)) # "none"}
    IN  IF bad = {} THEN 0 ELSE CHOOSE i \in bad : \A j \in bad : i <= j

(* self.threats after the emissions em, the lookups answered by oc *)
Collect(em, oc) ==
    [n \in DOMAIN em |->
        IF NeedsLookup(em[n])
        THEN _add_threat(em[n].threat, OutcomeOf(em, oc, n))
        ELSE em[n].threat]

(* the lookups made for the emissions em, in order *)
LookupLog(em, oc) ==
    LET made == SelectSeq(IdxSeq(em), LAMBDA i : NeedsLookup(em[i]))
    IN  [m \in DOMAIN made |->
            [ip |-> em[made[m]].threat.source,
             outcome |-> IF RaisesTypeError(em[made[m]].threat.source)
                         THEN "TypeError" ELSE OutcomeOf(em, oc, made[m])]]

AnalysisResult(ths, score) ==
    [threats |-> ths,
     risk_score |-> score,
     severity_count |-> _count_by_severity(ths),
     threat_summary |-> _generate_summary(ths)]

(* main.py's fallback when analyze raises *)
FailedAnalysis == [threats |-> <<>>, risk_score |-> 0, severity_count |-> EmptyDict]

(* detector.analyze: the rules emit em, the lookups are answered by oc      *)
(* (address -> outcome).                                                    *)
Analyze(em, oc) ==
    LET stop == FirstRaise(em, oc)
        ran == IF stop = 0 THEN em ELSE SubSeq(em, 1, stop - 1)
        ths == Collect(ran, oc)
    IN  /\ threats' = ths
        /\ lookups' = LookupLog(IF stop = 0 THEN em ELSE SubSeq(em, 1, stop), oc)
        /\ default_timeout' = IF lookups' = <<>> THEN default_timeout ELSE NoTimeout
        /\ IF stop = 0
           THEN /\ risk_score' = _calculate_risk_score(ths)
                /\ SetRet("threats", AnalysisResult(ths, risk_score'))
                /\ UNCHANGED error
           ELSE /\ UNCHANGED risk_score
                /\ SetRet("threats", FailedAnalysis)
                /\ error' = Escapes(em[stop].threat.source, OutcomeOf(em, oc, stop))

(* the addresses analyze looks up *)
Lookups(em) ==
    {em[i].threat.source : i \in {j \in DOMAIN em : NeedsLookup(em[j])}} \ {None}

(* The environments of one call: some of the addresses resolve, the others *)
(* fail, all in the same way.                                               *)
Environments(addrs) ==
    {[a \in addrs |-> IF a \in named THEN "found" ELSE kind] :
        named \in SUBSET addrs, kind \in FailureKinds}

(* main.py: detector.analyze(packets if packets else [], statistics if     *)
(* statistics else {})                                                      *)
analyze ==
    /\ pc \in {"timeline", "records"}
    /\ LET em == Emissions(ret["packets"], ret["statistics"])
       IN  \E oc \in Environments(Lookups(em)) : Analyze(em, oc)
    /\ pc' = IF pc = "timeline" THEN "done" ELSE "returned"
    /\ UNCHANGED <<parser_packets, packet_data, flows, statistics, prev, pass,
                   tmp_file, calls>>

---------------------------------------------------------------------------
(* Captures *)

A1 == AddrOrder[1]
A2 == AddrOrder[2]
A3 == AddrOrder[3]

(* single packets of every shape extract_packet_info tells apart *)
PacketKinds ==
    { RawPacket(1, 60, <<"Ethernet", "IP", "TCP">>, A1, A2, 40000, 4444, <<>>, 0),
      RawPacket(2, 1500, <<"Ethernet", "IP", "TCP", "Raw">>, A2, A1, 4444, 40000, <<>>, 1446),
      RawPacket(3, 80, <<"Ethernet", "IP", "UDP", "DNS">>, A1, A3, 5353, 53, <<60>>, 0),
      RawPacket(0, 42, <<"Ethernet", "ARP">>, None, None, NonePort, NonePort, <<>>, 0),
      RawPacket(4, 98, <<"Ethernet", "IP", "ICMP", "Raw">>, A3, A1, NonePort, NonePort, <<>>, 56),
      RawPacket(5, 1200, <<"Ethernet", "IPv6", "TCP">>, A2, A3, 50000, 8080, <<>>, 0),
      RawPacket(6, 64, <<"Ethernet", "IP">>, A3, A2, NonePort, NonePort, <<>>, 0) }

MaxShortLen == 3

RECURSIVE SeqsUpTo(_, _)
SeqsUpTo(S, n) ==
    IF n = 0 THEN {<<>>}
    ELSE LET shorter == SeqsUpTo(S, n - 1)
         IN  shorter \cup {Append(q, x) : q \in {r \in shorter : Len(r) = n - 1}, x \in S}

ShortCaptures == SeqsUpTo(PacketKinds, MaxShortLen)

(* a run: n packets of one template, the destination port advancing by    *)
(* step and the time by one second from one packet to the next             *)
RunPackets(tpl, step, n) ==
    [i \in 1..n |-> [tpl EXCEPT !.dport = @ + (i - 1) * step, !.time = @ + (i - 1)]]

RunTemplates ==
    { <<RawPacket(10, 60, <<"Ethernet", "IP", "TCP">>, A1, A2, 40000, 0, <<>>, 0), 1>>,
      <<RawPacket(20, 60, <<"Ethernet", "IP", "TCP">>, A3, A2, 40001, 4440, <<>>, 0), 1>>,
      <<RawPacket(30, 60, <<"Ethernet", "IP", "TCP">>, A2, A1, 40002, 1, <<>>, 0), 1>>,
      <<RawPacket(40, 60, <<"Ethernet", "IP", "TCP">>, A1, A2, 40003, 80, <<>>, 0), 0>>,
      <<RawPacket(50, 80, <<"Ethernet", "IP", "UDP", "DNS">>, A2, A3, 5353, 53, <<20>>, 0), 0>> }

RunLens ==
    {1, PortScanThreshold, PortScanThreshold + 1, SamplePorts + 1,
     SynFloodThreshold, SynFloodThreshold + 1}

TailLens == {1, PortScanThreshold + 1}

Runs(lens) == {RunPackets(t[1], t[2], n) : t \in RunTemplates, n \in lens}

(* one run, or one run followed by a short one *)
RunCaptures == Runs(RunLens) \cup {r1 \o r2 : r1 \in Runs(RunLens), r2 \in Runs(TailLens)}

(* captures around the thresholds of the other rules *)
SshTry == RawPacket(60, 60, <<"Ethernet", "IP", "TCP">>, A1, A2, 40004, 22, <<>>, 0)
SmbTry == RawPacket(80, 60, <<"Ethernet", "IP", "TCP">>, A3, A2, 40005, 445, <<>>, 0)
Upload == RawPacket(100, MiB + 54, <<"Ethernet", "IP", "TCP", "Raw">>, A1, A2, 40006, 443, <<>>, MiB)
OneByte == RawPacket(120, 55, <<"Ethernet", "IP", "TCP", "Raw">>, A1, A3, 40006, 443, <<>>, 1)
Bare == RawPacket(130, 60, <<"Ethernet", "IP", "TCP">>, A1, A2, 40006, 443, <<>>, 0)
Lookup == RawPacket(140, 80, <<"Ethernet", "IP", "UDP", "DNS">>, A2, A3, 5353, 53, <<20>>, 0)
NoQuestion == RawPacket(200, 70, <<"Ethernet", "IP", "UDP", "DNS">>, A3, A2, 53, 5353, <<>>, 0)
Tunnel1 == RawPacket(210, 200, <<"Ethernet", "IP", "UDP", "DNS">>, A1, A3, 5353, 53,
                     <<LongQueryLen, LongQueryLen + 1, 70>>, 0)
Tunnel2 == RawPacket(211, 200, <<"Ethernet", "IP", "UDP", "DNS">>, A2, A3, 5353, 53,
                     <<65, LongQueryLen + 2>>, 0)
Edge == RawPacket(212, 100, <<"Ethernet", "IP", "UDP", "DNS">>, A1, A3, 5353, 53,
                  <<LongQueryLen>>, 0)
Big == RawPacket(300, 1400, <<"Ethernet", "IP", "UDP">>, A2, A1, 9000, 9001, <<>>, 0)
Small == RawPacket(320, LargePacketLen, <<"Ethernet", "IP", "UDP">>, A1, A2, 9001, 9000, <<>>, 0)
Ping == RawPacket(400, 98, <<"Ethernet", "IP", "ICMP", "Raw">>, A3, A1, NonePort, NonePort, <<>>, 56)
Tick == RawPacket(1000, 60, <<"Ethernet", "IP">>, A3, A2, NonePort, NonePort, <<>>, 0)

At(packet, time) == [packet EXCEPT !.time = time]

RuleCaptures ==
    { RunPackets(SshTry, 0, BruteForceThreshold),
      RunPackets(SshTry, 0, BruteForceThreshold + 1),
      RunPackets(SshTry, 0, BruteForceThreshold + 1) \o RunPackets(SmbTry, 0, BruteForceThreshold + 2),
      RunPackets(Upload, 0, ExfilMiB),
      RunPackets(Upload, 0, ExfilMiB) \o <<OneByte, Bare>>,
      RunPackets(Upload, 0, ExfilMiB + 1) \o <<Bare>>,
      RunPackets(Lookup, 0, DnsVolumeThreshold),
      RunPackets(Lookup, 0, DnsVolumeThreshold) \o <<Bare, NoQuestion>>,
      <<Edge>>, <<Tunnel1>>, <<Tunnel1, Tunnel2>>, <<Tunnel2, Edge, Tunnel1>>,
      RunPackets(Big, 0, 4) \o <<Small>>,
      RunPackets(Big, 0, 5) \o <<Small>>,
      <<Small>> \o RunPackets(Big, 0, 8) \o <<Small>>,
      <<Ping, Ping, Ping, Bare, Bare, Bare, Bare, Bare, Bare, Bare>>,
      <<Ping, Bare, Bare>>,
      RunPackets(Tick, 0, MaxBuckets),
      RunPackets(Tick, 0, MaxBuckets + 1),
      <<Tick, At(Tick, 1125), At(Tick, 1250)>>,
      <<At(Tick, 1250), At(Tick, 1001), At(Tick, 1249), Tick>> }

Captures == ShortCaptures \cup RunCaptures \cup RuleCaptures

(* Packet dicts with optional fields absent or None, as a caller of        *)
(* analyze may pass them                                                    *)
SparseRecords ==
    { [dst_port |-> 4444],
      [src_ip |-> None, dst_ip |-> None, src_port |-> NonePort, dst_port |-> 8080,
       protocol |-> None, payload_size |-> 0, length |-> 60],
      [dst_port |-> 22, length |-> 60],
      [src_ip |-> A1, dst_port |-> 4444],
      [src_ip |-> A2, protocol |-> "TCP", length |-> 1500],
      [dns_query |-> [queries |-> <<60>>, answers |-> <<>>]],
      [src_ip |-> A3, dst_ip |-> A1, payload_size |-> 56],
      [timestamp |-> 7] }

MaxRecords == 2

RecordLists == SeqsUpTo(SparseRecords, MaxRecords)

---------------------------------------------------------------------------
(* The pipeline *)

(* tmp_path = None: no temporary file yet *)
NoFile == "none"

MaxPasses == 2

Init ==
    /\ parser_packets = <<>>
    /\ packet_data = <<>>
    /\ flows = EmptyDict
    /\ statistics = EmptyDict
    /\ threats = <<>>
    /\ risk_score = 0
    /\ lookups = <<>>
    /\ ret = EmptyDict
    /\ prev = EmptyDict
    /\ pass = 1
    /\ error = "none"
    /\ pc = "new"
    /\ tmp_file = NoFile
    /\ default_timeout = NoTimeout
    /\ calls = [t \in Callers |-> Idle]

(* the upload is written to a NamedTemporaryFile(delete=False) and tmp_path *)
(* is set to its name                                                       *)
save_upload ==
    /\ pc = "new"
    /\ tmp_file' = "exists"
    /\ pc' = "saved"
    /\ UNCHANGED <<parser_packets, packet_data, flows, statistics, threats, risk_score,
                   lookups, ret, prev, pass, error, default_timeout, calls>>

(* The request is over: its parser, its detector and its locals are gone. *)
Discard ==
    /\ parser_packets' = <<>>
    /\ packet_data' = <<>>
    /\ flows' = EmptyDict
    /\ statistics' = EmptyDict
    /\ threats' = <<>>
    /\ risk_score' = 0
    /\ lookups' = <<>>
    /\ ret' = EmptyDict
    /\ prev' = EmptyDict
    /\ pass' = 1
    /\ error' = "none"
    /\ UNCHANGED <<default_timeout, calls>>

(* reading the upload or writing it raises inside the with block: the file *)
(* is there, tmp_path is still None, and 'except Exception' has no path to  *)
(* unlink                                                                   *)
save_upload_fails ==
    /\ pc = "new"
    /\ tmp_file' = "exists"
    /\ pc' = "failed"
    /\ Discard

(* rdpcap loads the capture; parse_file returns True *)
parse_file ==
    /\ pc = "saved"
    /\ \E capture \in Captures : parser_packets' = capture
    /\ pc' = "parsed"
    /\ UNCHANGED <<packet_data, flows, statistics, threats, risk_score, lookups, tmp_file,
                   default_timeout, calls, ret, prev,
                   pass, error>>

(* rdpcap raises; parse_file returns False and the request is rejected *)
parse_file_fails ==
    /\ pc = "saved"
    /\ pc' = "rejected"
    /\ UNCHANGED tmp_file
    /\ Discard

(* extract_packet_info, get_statistics, get_network_graph_data or          *)
(* get_timeline_data raises: 'except Exception' turns it into               *)
(* HTTPException(400), which 'except HTTPException: raise' lets through     *)
stage_raises ==
    /\ pc \in {"parsed", "extracted", "flows", "network_graph"}
    /\ pc' = "aborted"
    /\ UNCHANGED tmp_file
    /\ Discard

(* if tmp_path: os.unlink(tmp_path); return JSONResponse(final_result) *)
respond ==
    /\ pc = "done"
    /\ tmp_file' = "deleted"
    /\ pc' = "responded"
    /\ Discard

(* building or serializing the result raises: 'except Exception' unlinks   *)
(* tmp_path (a second unlink fails and is swallowed) and raises             *)
(* HTTPException(500)                                                       *)
unexpected_exception ==
    /\ pc \in {"timeline", "done"}
    /\ tmp_file' = "deleted"
    /\ pc' = "failed"
    /\ Discard

(* the same parser and the same detector are run over the capture again *)
run_again ==
    /\ pc = "done"
    /\ pass < MaxPasses
    /\ pass' = pass + 1
    /\ prev' = ret
    /\ ret' = EmptyDict
    /\ lookups' = <<>>
    /\ pc' = "parsed"
    /\ UNCHANGED <<parser_packets, packet_data, flows, statistics, threats,
                   risk_score, error,
                   tmp_file, default_timeout, calls>>

(* A caller hands analyze a list of packet dicts it built itself, with no  *)
(* statistics: ThreatDetector().analyze(records, {}).                       *)
receive_records ==
    /\ pc = "new"
    /\ \E records \in RecordLists :
           ret' = [packets |-> records, statistics |-> EmptyDict]
    /\ pc' = "records"
    /\ UNCHANGED <<parser_packets, packet_data, flows, statistics, threats,
                   risk_score, lookups, tmp_file,
                   default_timeout, calls, prev, pass, error>>

Next ==
    \/ save_upload
    \/ save_upload_fails
    \/ parse_file
    \/ parse_file_fails
    \/ stage_raises
    \/ respond
    \/ unexpected_exception
    \/ extract_packet_info
    \/ get_statistics
    \/ get_flows
    \/ get_network_graph_data
    \/ get_timeline_data
    \/ receive_records
    \/ analyze
    \/ run_again

Spec == Init /\ [][Next]_vars

(* two callers of resolve_ip_to_domain, their statements interleaved *)
LookupNext ==
    \E t \in Callers :
        \/ set_timeout(t)
        \/ lookup_starts(t)
        \/ lookup_ends(t)
        \/ reset_timeout(t)

LookupSpec == Init /\ [][LookupNext]_vars

---------------------------------------------------------------------------
(* Properties *)

Analyzed == pc = "done" /\ error = "none"

CountSev(ths, sev) == Cardinality({i \in DOMAIN ths : ths[i].severity = sev})

WeightedSum(ths) ==
    100 * CountSev(ths, "critical") + 40 * CountSev(ths, "high")
    + 20 * CountSev(ths, "medium") + 5 * CountSev(ths, "low")

\* C1: the risk score analyze returns is min(100, sum of the severity weights
\* critical=100, high=40, medium=20, low=5 over the returned records); it is an
\* integer in 0..100, and it is 100 whenever a record is critical.
C1_RiskScore ==
    /\ risk_score \in 0..100
    /\ Analyzed =>
        LET r == ret["threats"]
        IN  /\ r.risk_score = risk_score
            /\ r.risk_score = IF WeightedSum(r.threats) < 100
                              THEN WeightedSum(r.threats) ELSE 100
            /\ \A i \in DOMAIN r.threats :
                   r.threats[i].severity \in {"critical", "high", "medium", "low"}
            /\ (CountSev(r.threats, "critical") > 0 => r.risk_score = 100)

C1_Witness ==
    /\ Analyzed
    /\ CountSev(ret["threats"].threats, "critical") = 1
    /\ CountSev(ret["threats"].threats, "high") >= 1
    /\ ret["threats"].risk_score = 100

\* C2: severity_count has exactly the keys critical, high, medium, low; each
\* value is the number of returned records of that severity; the four values
\* sum to the length of the threat list, which is threat_summary.total_threats.
C2_SeverityHistogram ==
    Analyzed =>
        LET r == ret["threats"]
            h == r.severity_count
        IN  /\ DOMAIN h = {"critical", "high", "medium", "low"}
            /\ \A sev \in DOMAIN h : h[sev] = CountSev(r.threats, sev)
            /\ h["critical"] + h["high"] + h["medium"] + h["low"] = Len(r.threats)
            /\ r.threat_summary.total_threats = Len(r.threats)

C2_Witness ==
    /\ Analyzed
    /\ ret["threats"].severity_count["high"] >= 1
    /\ ret["threats"].severity_count["medium"] >= 2
    /\ ret["threats"].severity_count["low"] = 0

Populated(p) == p.src_ip # None /\ p.dst_ip # None

IsPairOf(k, p) ==
    /\ {k[1], k[2]} = {p.src_ip, p.dst_ip}
    /\ Len(k) = 2
    /\ Rank(k[1]) <= Rank(k[2])

\* C3: the keys of get_flows() are the sorted address pairs of exactly the
\* packets with both src_ip and dst_ip populated; A->B and B->A share one key;
\* no key is without such a packet.
C3_FlowKeys ==
    "flows" \in DOMAIN ret =>
        LET keys == DOMAIN ret["flows"]
            both == {i \in DOMAIN packet_data : Populated(packet_data[i])}
        IN  /\ \A i \in both : \E k \in keys : IsPairOf(k, packet_data[i])
            /\ \A k \in keys : \E i \in both : IsPairOf(k, packet_data[i])
            /\ \A k1, k2 \in keys : {k1[1], k1[2]} = {k2[1], k2[2]} => k1 = k2
            /\ DOMAIN flows = keys

C3_Witness ==
    /\ "flows" \in DOMAIN ret
    /\ \E i, j \in DOMAIN packet_data :
           /\ Populated(packet_data[i])
           /\ packet_data[i].src_ip # packet_data[i].dst_ip
           /\ packet_data[i].src_ip = packet_data[j].dst_ip
           /\ packet_data[i].dst_ip = packet_data[j].src_ip
    /\ \E i \in DOMAIN packet_data : ~Populated(packet_data[i])
    /\ Cardinality(DOMAIN ret["flows"]) = 1

Places(fl, p) == {<<k, j>> \in {<<k, j>> \in (DOMAIN fl) \X (1..Len(packet_data)) :
                                  j <= Len(fl[k])} : fl[k][j] = p}

\* C4: after the extraction of a capture by a fresh parser the flows partition
\* the input: a packet with both endpoints is in exactly one flow, exactly
\* once; a flow holds its packets in increasing packet index; a packet missing
\* an endpoint is in no flow, and nothing is raised.
C4_FlowPartition ==
    (pass = 1 /\ pc \in {"extracted", "statistics", "flows", "network_graph", "timeline", "done"}) =>
        /\ Len(packet_data) = Len(parser_packets)
        /\ \A i \in DOMAIN packet_data :
               Cardinality(Places(flows, packet_data[i])) =
                   IF Populated(packet_data[i]) THEN 1 ELSE 0
        /\ \A k \in DOMAIN flows :
               /\ \A j \in DOMAIN flows[k] : \E i \in DOMAIN packet_data :
                      flows[k][j] = packet_data[i]
               /\ \A j1, j2 \in DOMAIN flows[k] :
                      j1 < j2 => flows[k][j1].packet_num < flows[k][j2].packet_num
        /\ error = "none"

C4_Witness ==
    /\ pass = 1 /\ pc = "extracted"
    /\ \E k \in DOMAIN flows : \E j \in DOMAIN flows[k] :
           j > 1 /\ flows[k][j].src_ip = flows[k][1].dst_ip
    /\ \E i \in DOMAIN packet_data : ~Populated(packet_data[i])

BreakdownSum(stats) ==
    SeqSum([i \in DOMAIN stats.protocol_breakdown |-> stats.protocol_breakdown[i][2].count])

\* C5: for a non-empty packet sequence the protocol_breakdown counts of
\* get_statistics sum to at most total_packets, and to exactly total_packets
\* if and only if every packet has a protocol label (protocol is not None).
C5_BreakdownSum ==
    ("statistics" \in DOMAIN ret /\ packet_data # <<>>) =>
        LET stats == ret["statistics"]
        IN  /\ stats.total_packets = Len(packet_data)
            /\ BreakdownSum(stats) <= stats.total_packets
            /\ (BreakdownSum(stats) = stats.total_packets) <=>
                   (\A i \in DOMAIN packet_data : packet_data[i].protocol # None)

C5_Witness ==
    /\ "statistics" \in DOMAIN ret
    /\ packet_data # <<>>
    /\ BreakdownSum(ret["statistics"]) >= 2
    /\ BreakdownSum(ret["statistics"]) < ret["statistics"].total_packets

EmptyRun == pc = "done" /\ parser_packets = <<>>

\* C6 as stated: an empty packet sequence run through the whole pipeline raises
\* no error and yields statistics with total_packets = 0, no flows, a graph
\* with no nodes and no links, an empty timeline, zero threats and risk score 0.
C6_AsStated ==
    EmptyRun =>
        /\ error = "none"
        /\ "total_packets" \in DOMAIN ret["statistics"]
        /\ ret["statistics"].total_packets = 0
        /\ ret["flows"] = EmptyDict
        /\ ret["network_graph"].nodes = <<>>
        /\ ret["network_graph"].links = <<>>
        /\ ret["timeline"].timeline = <<>>
        /\ ret["threats"].threats = <<>>
        /\ ret["threats"].risk_score = 0

\* C6: an empty packet sequence run through the whole pipeline raises no error
\* and yields an empty packet list (length 0), the empty mapping as statistics
\* (no total_packets field), no flows, a graph with no nodes and no links, an
\* empty timeline with start = end = 0, zero threats, an all-zero severity
\* histogram and risk score 0.
C6_EmptyPipeline ==
    EmptyRun =>
        /\ error = "none"
        /\ Len(ret["packets"]) = 0
        /\ ret["statistics"] = EmptyDict
        /\ ret["flows"] = EmptyDict
        /\ ret["network_graph"].nodes = <<>>
        /\ ret["network_graph"].links = <<>>
        /\ ret["timeline"] = [timeline |-> <<>>, start_time |-> 0, end_time |-> 0]
        /\ ret["threats"].threats = <<>>
        /\ ret["threats"].risk_score = 0
        /\ \A sev \in {"critical", "high", "medium", "low"} :
               ret["threats"].severity_count[sev] = 0
        /\ ret["threats"].threat_summary.total_threats = 0
        /\ risk_score = 0 /\ threats = <<>>

C6_Witness ==
    /\ EmptyRun
    /\ DOMAIN ret = {"packets", "statistics", "flows", "network_graph", "timeline", "threats"}
    /\ ret["threats"].risk_score = 0

StripDomain(t) == [k \in (DOMAIN t) \ {"source_domain"} |-> t[k]]

StripDomains(ths) == [i \in DOMAIN ths |-> StripDomain(ths[i])]

\* C7 as stated: running the pipeline a second time on the same packet
\* sequence, with the same parser and the same detector, returns the same
\* packet list, statistics and flows and the same threat list (name-resolution
\* field aside), risk score and histogram as the first run; nothing is
\* accumulated from the earlier run.
C7_AsStated ==
    (pass > 1 /\ pc = "done") =>
        /\ ret["packets"] = prev["packets"]
        /\ ret["statistics"] = prev["statistics"]
        /\ ret["flows"] = prev["flows"]
        /\ StripDomains(ret["threats"].threats) = StripDomains(prev["threats"].threats)
        /\ ret["threats"].risk_score = prev["threats"].risk_score
        /\ ret["threats"].severity_count = prev["threats"].severity_count

PortsSeen(pk, s, d) ==
    {pk[i].dst_port : i \in {j \in DOMAIN pk : /\ pk[j].src_ip = s
                                               /\ pk[j].dst_ip = d
                                               /\ pk[j].dst_port # NonePort}}

RecordsOf(ths, type) == {i \in DOMAIN ths : ths[i].type = type}

\* C8 as stated: for every ordered (source, destination) address pair, analyze
\* emits exactly one port_scan record of severity high if the number of
\* distinct destination ports seen on the pair's packets is greater than 5, and
\* none otherwise; ports_scanned is that count and sample_ports the at most 10
\* smallest of those ports, ascending.
C8_AsStated ==
    Analyzed =>
        LET pk == ret["packets"]
            ths == ret["threats"].threats
        IN  \A s, d \in Addrs :
                LET ports == PortsSeen(pk, s, d)
                    recs == {i \in RecordsOf(ths, "port_scan") :
                                ths[i].source = s /\ ths[i].destination = d}
                IN  IF Cardinality(ports) > 5
                    THEN /\ Cardinality(recs) = 1
                         /\ \A i \in recs :
                                /\ ths[i].severity = "high"
                                /\ ths[i].ports_scanned = Cardinality(ports)
                                /\ ths[i].sample_ports = Take(SortedAsc(ports), 10)
                    ELSE recs = {}

(* counted[i]: whether packet i counts towards its source's total *)
FloodHolds(pk, ths, counted) ==
    \A s \in Addrs :
        LET n == Cardinality({i \in DOMAIN pk : pk[i].src_ip = s /\ counted[i]})
            recs == {i \in RecordsOf(ths, "syn_flood") : ths[i].source = s}
        IN  IF n > 30
            THEN /\ Cardinality(recs) = 1
                 /\ \A i \in recs : ths[i].severity = "critical" /\ ths[i].packet_count = n
            ELSE recs = {}

\* C9 as stated: for every source address, analyze emits exactly one syn_flood
\* record of severity critical if the number of packets from that source whose
\* protocol label is present is greater than 30, with packet_count equal to
\* that number, and none otherwise.
C9_AsStated ==
    Analyzed =>
        FloodHolds(ret["packets"], ret["threats"].threats,
                   [i \in DOMAIN ret["packets"] |-> ret["packets"][i].protocol # None])

\* C9: for every source address, analyze emits exactly one syn_flood record of
\* severity critical if the number of packets from that source whose protocol
\* label is TCP is greater than 30, with packet_count equal to that number, and
\* none otherwise; packets labeled UDP or ICMP do not count.
C9_TcpFlood ==
    Analyzed =>
        FloodHolds(ret["packets"], ret["threats"].threats,
                   [i \in DOMAIN ret["packets"] |-> ret["packets"][i].protocol = "TCP"])

C9_Witness ==
    /\ Analyzed
    /\ \E i \in RecordsOf(ret["threats"].threats, "syn_flood") :
           /\ ret["threats"].threats[i].packet_count = 31
           /\ Len(ret["packets"]) > 31
    /\ \E j \in DOMAIN ret["packets"] : ret["packets"][j].protocol # "TCP"

SuspiciousTriples(pk) ==
    {<<pk[i].src_ip, pk[i].dst_ip, pk[i].dst_port>> :
        i \in {j \in DOMAIN pk : pk[j].dst_port \in DOMAIN SUSPICIOUS_PORTS}}

\* C10: the number of suspicious_port records equals the number of distinct
\* (source, destination, destination port) triples whose port is in
\* SUSPICIOUS_PORTS; a triple seen again anywhere in the sequence adds no
\* record; each record's port_purpose is the table entry for its port.
C10_SuspiciousPorts ==
    Analyzed =>
        LET pk == ret["packets"]
            ths == ret["threats"].threats
            recs == RecordsOf(ths, "suspicious_port")
        IN  /\ Cardinality(recs) = Cardinality(SuspiciousTriples(pk))
            /\ \A i \in recs :
                   /\ <<ths[i].source, ths[i].destination, ths[i].port>>
                          \in SuspiciousTriples(pk)
                   /\ ths[i].port_purpose = SUSPICIOUS_PORTS[ths[i].port]
                   /\ ths[i].severity = "high"
            /\ \A i, j \in recs :
                   (/\ ths[i].source = ths[j].source
                    /\ ths[i].destination = ths[j].destination
                    /\ ths[i].port = ths[j].port) => i = j

C10_Witness ==
    /\ Analyzed
    /\ pass = 1
    /\ Len(ret["packets"]) = 3
    /\ ret["packets"][1].dst_port \in DOMAIN SUSPICIOUS_PORTS
    /\ ret["packets"][2].dst_port \in DOMAIN SUSPICIOUS_PORTS
    /\ ret["packets"][2].dst_port # ret["packets"][1].dst_port
    /\ ret["packets"][3].dst_port = ret["packets"][1].dst_port
    /\ ret["packets"][3].src_ip = ret["packets"][1].src_ip
    /\ ret["packets"][3].dst_ip = ret["packets"][1].dst_ip
    /\ Cardinality(RecordsOf(ret["threats"].threats, "suspicious_port")) = 2

\* C11: for every (source address, destination port) pair with the port in
\* {22, 3389, 21, 445, 139}, analyze emits exactly one brute_force record of
\* severity high if more than 10 packets go from that source to that port,
\* with attempt_count that number and port_service the table's name for the
\* port, and none otherwise; other ports never produce a brute_force record.
C11_BruteForce ==
    Analyzed =>
        LET pk == ret["packets"]
            ths == ret["threats"].threats
            ports == {pk[i].dst_port : i \in DOMAIN pk} \cup {22, 3389, 21, 445, 139}
        IN  /\ \A s \in Addrs, port \in ports :
                LET n == Cardinality({i \in DOMAIN pk :
                                         pk[i].src_ip = s /\ pk[i].dst_port = port})
                    recs == {i \in RecordsOf(ths, "brute_force") :
                                ths[i].source = s /\ ths[i].target_port = port}
                IN  IF port \in {22, 3389, 21, 445, 139} /\ n > 10
                    THEN /\ Cardinality(recs) = 1
                         /\ \A i \in recs :
                                /\ ths[i].severity = "high"
                                /\ ths[i].attempt_count = n
                                /\ ths[i].port_service = service_ports[port]
                    ELSE recs = {}
            /\ \A i \in RecordsOf(ths, "brute_force") :
                   ths[i].source \in Addrs /\ ths[i].target_port \in ports
            /\ service_ports = (22 :> "SSH") @@ (3389 :> "RDP") @@ (21 :> "FTP")
                               @@ (445 :> "SMB") @@ (139 :> "NetBIOS")

C11_Witness ==
    /\ Analyzed
    /\ pass = 1
    /\ \E i, j \in RecordsOf(ret["threats"].threats, "brute_force") :
           /\ ret["threats"].threats[i].attempt_count = 11
           /\ ret["threats"].threats[i].port_service = "SSH"
           /\ ret["threats"].threats[j].attempt_count = 12
           /\ ret["threats"].threats[j].port_service = "SMB"

PacketsFrom(pk, s) == SelectSeq(pk, LAMBDA q : q.src_ip = s)

PayloadFrom(pk, s) ==
    SeqSum([i \in DOMAIN PacketsFrom(pk, s) |-> PacketsFrom(pk, s)[i].payload_size])

\* C12: for every source address, analyze emits exactly one data_exfiltration
\* record of severity high if the sum of payload_size over that source's
\* packets is greater than 5*1024*1024 bytes, and none otherwise; the record's
\* packet_count is the number of that source's packets with non-zero payload.
C12_DataExfiltration ==
    Analyzed =>
        LET pk == ret["packets"]
            ths == ret["threats"].threats
        IN  /\ \A s \in Addrs :
                LET recs == {i \in RecordsOf(ths, "data_exfiltration") : ths[i].source = s}
                IN  IF PayloadFrom(pk, s) > 5 * 1024 * 1024
                    THEN /\ Cardinality(recs) = 1
                         /\ \A i \in recs :
                                /\ ths[i].severity = "high"
                                /\ ths[i].packet_count =
                                       Len(SelectSeq(PacketsFrom(pk, s),
                                                     LAMBDA q : q.payload_size # 0))
                    ELSE recs = {}
            /\ \A i \in RecordsOf(ths, "data_exfiltration") : ths[i].source \in Addrs

C12_Witness ==
    /\ Analyzed
    /\ pass = 1
    /\ \E i \in RecordsOf(ret["threats"].threats, "data_exfiltration") :
           LET r == ret["threats"].threats[i]
           IN  /\ r.packet_count = 6
               /\ Len(PacketsFrom(ret["packets"], r.source)) = 7
               /\ PayloadFrom(ret["packets"], r.source) = 5 * 1024 * 1024 + 1

DnsPackets(pk) == SelectSeq(pk, LAMBDA q : "dns_query" \in DOMAIN q)

\* C13: analyze emits exactly one dns_anomaly record of severity medium if the
\* number of packets carrying DNS query metadata is greater than 50, and none
\* otherwise; its packet_count is that number, which is also what
\* get_statistics reports as dns_queries for the same sequence.
C13_DnsVolume ==
    Analyzed =>
        LET pk == ret["packets"]
            ths == ret["threats"].threats
            recs == RecordsOf(ths, "dns_anomaly")
            n == Len(DnsPackets(pk))
        IN  /\ IF n > 50
               THEN /\ Cardinality(recs) = 1
                    /\ \A i \in recs : ths[i].severity = "medium" /\ ths[i].packet_count = n
               ELSE recs = {}
            /\ pk # <<>> => ret["statistics"].dns_queries = n

C13_Witness ==
    /\ Analyzed
    /\ pass = 1
    /\ \E i \in RecordsOf(ret["threats"].threats, "dns_anomaly") :
           /\ ret["threats"].threats[i].packet_count = 51
           /\ ret["statistics"].dns_queries = 51
           /\ Len(ret["packets"]) = 52

(* every query string of the sequence, in packet order, with its packet's source *)
AllQueries(pk) ==
    Concat([i \in DOMAIN pk |->
               IF "dns_query" \in DOMAIN pk[i]
               THEN [j \in DOMAIN pk[i].dns_query.queries |->
                        [src |-> pk[i].src_ip, length |-> pk[i].dns_query.queries[j]]]
               ELSE <<>>])

\* C14: the number of dns_exfiltration records equals min(3, number of query
\* strings, across all packets, longer than 50); the records are for the first
\* such queries in packet order, each of severity medium with query_length the
\* string's length; a query of length exactly 50 never produces a record.
C14_DnsLength ==
    Analyzed =>
        LET long == SelectSeq(AllQueries(ret["packets"]), LAMBDA q : q.length > 50)
            recs == SelectSeq(ret["threats"].threats, LAMBDA t : t.type = "dns_exfiltration")
        IN  /\ Len(recs) = IF Len(long) < 3 THEN Len(long) ELSE 3
            /\ \A i \in DOMAIN recs :
                   /\ recs[i].severity = "medium"
                   /\ recs[i].query_length = long[i].length
                   /\ recs[i].source = long[i].src
                   /\ recs[i].query_length # 50

C14_Witness ==
    /\ Analyzed
    /\ pass = 1
    /\ Len(SelectSeq(AllQueries(ret["packets"]), LAMBDA q : q.length > 50)) = 4
    /\ \E q \in Range(AllQueries(ret["packets"])) : q.length = 50
    /\ LET recs == SelectSeq(ret["threats"].threats, LAMBDA t : t.type = "dns_exfiltration")
       IN  Len(recs) = 3 /\ recs[1].query_length = 65 /\ recs[3].query_length = 51

LargeCount(pk) == Cardinality({i \in DOMAIN pk : pk[i].length > 1000})

\* C15: for a non-empty sequence analyze emits exactly one unusual_traffic
\* record of severity low if the packets longer than 1000 bytes are strictly
\* more than 80% of all packets, and none otherwise (exactly 80% does not
\* trigger); for an empty sequence none is emitted.
C15_TrafficVolume ==
    Analyzed =>
        LET pk == ret["packets"]
            ths == ret["threats"].threats
            recs == RecordsOf(ths, "unusual_traffic")
        IN  IF pk # <<>> /\ 5 * LargeCount(pk) > 4 * Len(pk)
            THEN /\ Cardinality(recs) = 1
                 /\ \A i \in recs : ths[i].severity = "low"
            ELSE recs = {}

C15_Witness ==
    /\ Analyzed
    /\ pass = 1
    /\ Len(ret["packets"]) = 6
    /\ \E i \in DOMAIN ret["packets"] : ret["packets"][i].length = 1000
    /\ \E i \in RecordsOf(ret["threats"].threats, "unusual_traffic") :
           ret["threats"].threats[i].large_packet_count = 5

(* the ICMP percentage protocol_breakdown reports, in tenths; 0 if ICMP is absent *)
ReportedIcmpShare(stats) ==
    LET bd == Get(stats, "protocol_breakdown", <<>>)
        at == {i \in DOMAIN bd : bd[i][1] = "ICMP"}
    IN  IF at = {} THEN 0 ELSE bd[CHOOSE i \in at : TRUE][2].percentage

\* C16 as stated: given the statistics get_statistics produced for the
\* sequence, analyze emits a protocol_anomaly record (severity medium,
\* protocol ICMP) if and only if the ICMP share reported in protocol_breakdown
\* exceeds 30%; the record's percentage agrees with the ICMP percentage in
\* protocol_breakdown; no other protocol label produces such a record.
C16_AsStated ==
    Analyzed =>
        LET ths == ret["threats"].threats
            recs == RecordsOf(ths, "protocol_anomaly")
            share == ReportedIcmpShare(ret["statistics"])
        IN  /\ (recs # {}) <=> (share > 300)
            /\ \A i \in recs :
                   /\ ths[i].severity = "medium"
                   /\ ths[i].protocol = "ICMP"
                   /\ ths[i].percentage = share

(* whether the record went through _add_threat with a source to look up *)
WasLookedUp(t) == "source" \in DOMAIN t /\ t.type # "dns_exfiltration"

\* C17: whatever the outcome of a reverse lookup (found, not found, timeout,
\* another resolution error), _add_threat appends the record and analyze
\* completes with every rule's records present; a record whose lookup failed
\* has no source_domain, and the failure changes nothing in any other record.
C17_LookupOutcomes ==
    pc = "done" =>
        LET ths == ret["threats"].threats
            em == Emissions(ret["packets"], ret["statistics"])
        IN  /\ error = "none"
            /\ threats = ths
            /\ StripDomains(ths) = [i \in DOMAIN em |-> em[i].threat]
            /\ Len(lookups) = Cardinality({i \in DOMAIN ths : WasLookedUp(ths[i])})
            /\ \A n \in DOMAIN lookups : lookups[n].outcome \in LookupOutcomes
            /\ \A i \in DOMAIN ths :
                   ("source_domain" \in DOMAIN ths[i]) <=>
                       /\ WasLookedUp(ths[i])
                       /\ \E n \in DOMAIN lookups :
                              lookups[n].ip = ths[i].source /\ lookups[n].outcome = "found"

C17_Witness ==
    /\ pc = "done"
    /\ pass = 1
    /\ \E m, n \in DOMAIN lookups :
           lookups[m].outcome = "found" /\ lookups[n].outcome = "timeout"
    /\ \E i, j \in DOMAIN threats :
           /\ "source_domain" \in DOMAIN threats[i]
           /\ WasLookedUp(threats[j])
           /\ "source_domain" \notin DOMAIN threats[j]

\* C18 as stated: no rule raises for a packet whose optional fields (src_ip,
\* dst_ip, ports, protocol, payload_size, dns_query, timestamp) are absent or
\* None; analyze returns normally, in particular for a packet with a
\* table-listed destination port and no source address.
C18_AsStated ==
    pc = "returned" => error = "none"

\* C19 as stated: every returned threat record that carries a source address
\* has had a reverse lookup attempted for that address before it was added,
\* for every threat type including dns_exfiltration; so whenever the lookup
\* for an address succeeds, every returned record with that source carries
\* source_domain.
C19_AsStated ==
    Analyzed =>
        LET ths == ret["threats"].threats
            sourced == {i \in DOMAIN ths : "source" \in DOMAIN ths[i] /\ ths[i].source # None}
        IN  /\ Len(lookups) = Cardinality(sourced)
            /\ \A i \in sourced : \E n \in DOMAIN lookups : lookups[n].ip = ths[i].source
            /\ \A i \in sourced : \A n \in DOMAIN lookups :
                   (lookups[n].ip = ths[i].source /\ lookups[n].outcome = "found")
                       => "source_domain" \in DOMAIN ths[i]

\* C20 as stated: for a packet sequence with at least one usable timestamp,
\* get_timeline_data uses bucket width max(1, (end_time - start_time) / 100)
\* and the returned timeline never has more than 100 buckets, packets exactly
\* at start_time and exactly at end_time included.
C20_AsStated ==
    ("timeline" \in DOMAIN ret /\ ret["timeline"].timeline # <<>>) =>
        LET tl == ret["timeline"]
            width_c == Max(MaxBuckets, tl.end_time - tl.start_time)
        IN  /\ \A m \in DOMAIN tl.timeline :
                   (tl.timeline[m].time_c - tl.start_time * MaxBuckets) % width_c = 0
            /\ Len(tl.timeline) <= MaxBuckets

(* the packets get_timeline_data counts: timestamp present and non-zero *)
Timed(pd) == SelectSeq(pd, LAMBDA q : Get(q, "timestamp", 0) # 0)

HasTimeline == "timeline" \in DOMAIN ret /\ Timed(packet_data) # <<>>

(* index of the last bucket the output loop enumerates *)
LastEnumerated(tl) ==
    BucketCount(tl.total_duration, BucketSizeC(tl.total_duration)) - 1

IdxOf(q, tl) == BucketIdx(q.timestamp, tl.start_time, BucketSizeC(tl.total_duration))

RowPackets(tl) == SeqSum([m \in DOMAIN tl.timeline |-> tl.timeline[m].packets])

(* indices in range, nothing dropped, rows in strictly increasing time order *)
TimelineInRange(tl, timed) ==
    /\ \A i \in DOMAIN timed : IdxOf(timed[i], tl) \in 0..LastEnumerated(tl)
    /\ RowPackets(tl) = Len(timed)
    /\ \A m \in DOMAIN tl.timeline : \A n \in DOMAIN tl.timeline :
           m < n => tl.timeline[m].time_c < tl.timeline[n].time_c

\* C21 as stated: every timestamped packet's bucket index lies in the range
\* the output loop enumerates, a packet exactly at end_time lands in the last
\* enumerated bucket, no counted packet is dropped, and the emitted buckets
\* are in strictly increasing time order.
C21_AsStated ==
    HasTimeline =>
        LET tl == ret["timeline"]
            timed == Timed(packet_data)
        IN  /\ TimelineInRange(tl, timed)
            /\ \A i \in DOMAIN timed :
                   timed[i].timestamp = tl.end_time
                       => IdxOf(timed[i], tl) = LastEnumerated(tl)

\* C21 amended: as stated, except that a packet exactly at end_time lands in
\* the last enumerated bucket only when the capture spans at least one time
\* unit; when it spans less, time_range is raised to 1, the loop enumerates
\* indices 0 and 1, and every packet lands in bucket 0.
C21_BucketRange ==
    HasTimeline =>
        LET tl == ret["timeline"]
            timed == Timed(packet_data)
        IN  /\ TimelineInRange(tl, timed)
            /\ \A i \in DOMAIN timed :
                   timed[i].timestamp = tl.end_time
                       => IdxOf(timed[i], tl) =
                              IF tl.end_time - tl.start_time >= 1
                              THEN LastEnumerated(tl) ELSE 0

\* a capture spanning 250 units with packets at start_time and at end_time
C21_Witness ==
    /\ HasTimeline
    /\ ret["timeline"].end_time - ret["timeline"].start_time = 250
    /\ Len(ret["timeline"].timeline) >= 3
    /\ \E i \in DOMAIN packet_data : packet_data[i].timestamp = ret["timeline"].end_time

HasGraph == "network_graph" \in DOMAIN ret

(* the packets with both endpoints populated *)
Ended(pd) == SelectSeq(pd, LAMBDA q : q.src_ip # None /\ q.dst_ip # None)

LengthSum(ps) == SeqSum([i \in DOMAIN ps |-> ps[i].length])

Between(pd, a, b) ==
    SelectSeq(Ended(pd), LAMBDA q : {q.src_ip, q.dst_ip} = {a, b})

\* C22: each packet with both endpoints counts in exactly one link, the one
\* of its sorted address pair, by one packet and its length, in packets_sent
\* of exactly its source node and packets_received of exactly its destination
\* node; packets missing an endpoint change nothing. The link packet counts,
\* packets_sent and packets_received each add up to the number of packets
\* with both endpoints.
C22_GraphCounts ==
    HasGraph =>
        LET g == ret["network_graph"]
            pd == packet_data
            ends == Ended(pd)
        IN  /\ \A i \in DOMAIN g.links : \A j \in DOMAIN g.links :
                   ( g.links[i].source = g.links[j].source
                     /\ g.links[i].target = g.links[j].target ) => i = j
            /\ \A i \in DOMAIN g.nodes : \A j \in DOMAIN g.nodes :
                   g.nodes[i].id = g.nodes[j].id => i = j
            /\ \A i \in DOMAIN g.links :
                   LET l == g.links[i]
                   IN  /\ Rank(l.source) <= Rank(l.target)
                       /\ l.packets = Len(Between(pd, l.source, l.target))
                       /\ l.size = LengthSum(Between(pd, l.source, l.target))
            /\ \A n \in DOMAIN ends :
                   /\ \E i \in DOMAIN g.links :
                          {g.links[i].source, g.links[i].target}
                              = {ends[n].src_ip, ends[n].dst_ip}
                   /\ \E i \in DOMAIN g.nodes : g.nodes[i].id = ends[n].src_ip
                   /\ \E i \in DOMAIN g.nodes : g.nodes[i].id = ends[n].dst_ip
            /\ \A i \in DOMAIN g.nodes :
                   LET nd == g.nodes[i]
                   IN  /\ nd.packets_sent = Len(SelectSeq(ends, LAMBDA q : q.src_ip = nd.id))
                       /\ nd.packets_received = Len(SelectSeq(ends, LAMBDA q : q.dst_ip = nd.id))
                       /\ nd.packets_sent + nd.packets_received > 0
            /\ SeqSum([i \in DOMAIN g.links |-> g.links[i].packets]) = Len(ends)
            /\ SeqSum([i \in DOMAIN g.nodes |-> g.nodes[i].packets_sent]) = Len(ends)
            /\ SeqSum([i \in DOMAIN g.nodes |-> g.nodes[i].packets_received]) = Len(ends)

\* one link counting packets in both directions of its pair, next to a
\* packet with no endpoints
C22_Witness ==
    /\ HasGraph
    /\ \E i \in DOMAIN ret["network_graph"].links :
           ret["network_graph"].links[i].packets >= 2
    /\ Len(Ended(packet_data)) < Len(packet_data)
    /\ \E i \in DOMAIN packet_data : \E j \in DOMAIN packet_data :
           /\ packet_data[i].src_ip # None
           /\ packet_data[i].src_ip = packet_data[j].dst_ip
           /\ packet_data[i].dst_ip = packet_data[j].src_ip

Unlabeled(pd) == SelectSeq(pd, LAMBDA q : Get(q, "protocol", None) = None)

(* total count of key k over the Counters of rows *)
KeyCount(rows, k) == SeqSum([i \in DOMAIN rows |-> CGet(rows[i].protocols, k)])

(* the count the statistics' protocol_breakdown holds for label k, 0 if none *)
LabelCount(stats, k) ==
    LET pb == stats.protocol_breakdown
    IN  IF \E i \in DOMAIN pb : pb[i][1] = k
        THEN pb[CHOOSE i \in DOMAIN pb : pb[i][1] = k][2].count ELSE 0

\* C23 as stated: for a packet with no resolved transport label the protocol
\* key is "OTHER" in the node, link, timeline and statistics breakdowns alike;
\* no breakdown uses a None key for such a packet, and none omits it while
\* another counts it.
C23_AsStated ==
    ("timeline" \in DOMAIN ret /\ packet_data # <<>>) =>
        LET g == ret["network_graph"]
            un == Unlabeled(packet_data)
        IN  /\ KeyCount(g.nodes, None) = 0
            /\ KeyCount(g.links, None) = 0
            /\ KeyCount(ret["timeline"].timeline, None) = 0
            /\ LabelCount(ret["statistics"], None) = 0
            /\ KeyCount(g.links, "OTHER") = Len(Ended(un))
            /\ KeyCount(g.nodes, "OTHER") = 2 * Len(Ended(un))
            /\ KeyCount(ret["timeline"].timeline, "OTHER") = Len(Timed(un))
            /\ LabelCount(ret["statistics"], "OTHER") = Len(un)

(* the uses of key k in the sequence of keys ks, and the place of its first *)
Uses(ks, k) == Cardinality({i \in DOMAIN ks : ks[i] = k})

FirstUse(ks, k) == CHOOSE i \in DOMAIN ks : ks[i] = k /\ \A j \in 1..(i - 1) : ks[j] # k

(* entry <<a, ca>> ranks before <<b, cb>>: higher count, or equal count and seen first *)
RanksBefore(ks, a, b) ==
    \/ Uses(ks, a) > Uses(ks, b)
    \/ Uses(ks, a) = Uses(ks, b) /\ FirstUse(ks, a) < FirstUse(ks, b)

(* top is the ranking of the n most used keys of ks *)
IsRanking(top, ks, n) ==
    /\ Len(top) = Min(n, Cardinality(Range(ks)))
    /\ \A i \in DOMAIN top : top[i][1] \in Range(ks) /\ top[i][2] = Uses(ks, top[i][1])
    /\ \A i \in DOMAIN top : \A j \in DOMAIN top :
           i < j => RanksBefore(ks, top[i][1], top[j][1])
    /\ \A k \in Range(ks) \ {top[i][1] : i \in DOMAIN top} :
           \A i \in DOMAIN top : RanksBefore(ks, top[i][1], k)

SourcesSeen(pd) ==
    SelectSeq([i \in DOMAIN pd |-> pd[i].src_ip], LAMBDA a : a # None)

DestinationsSeen(pd) ==
    SelectSeq([i \in DOMAIN pd |-> pd[i].dst_ip], LAMBDA a : a # None)

(* every use of a port, packet by packet, destination port before source port *)
PortUses(pd) ==
    Concat([i \in DOMAIN pd |->
        (IF pd[i].dst_port # NonePort THEN <<pd[i].dst_port>> ELSE <<>>) \o
        (IF pd[i].src_port # NonePort THEN <<pd[i].src_port>> ELSE <<>>)])

\* C24 as stated: top_ips_src and top_ips_dst have at most 10 entries and
\* top_ports at most 15, a port's count being its uses as source port plus
\* its uses as destination port; each ranking lists the entries with the
\* highest counts in descending count order, equal counts in first-seen
\* order, and no omitted entry has a count greater than an included one.
C24_AsStated ==
    ("statistics" \in DOMAIN ret /\ packet_data # <<>>) =>
        LET st == ret["statistics"]
        IN  /\ IsRanking(st.top_ips_src, SourcesSeen(packet_data), TopIps)
            /\ IsRanking(st.top_ips_dst, DestinationsSeen(packet_data), TopIps)
            /\ IsRanking(st.top_ports, PortUses(packet_data), TopPorts)

\* C25 as stated: when two analyses run concurrently in one process, every
\* reverse lookup runs with its timeout of 1 in effect from start to finish
\* (another caller's completion never removes it), and after a lookup returns
\* the process-wide default socket timeout is what it was before the call.
C25_AsStated ==
    \A t \in Callers :
        /\ calls[t].at = "in_flight" => default_timeout = LookupTimeout
        /\ calls[t].done > 0 => calls[t].restored

(* the emissions whose lookup lets an exception escape *)
RaisingEmissions(em) ==
    {n \in DOMAIN em : NeedsLookup(em[n]) /\ RaisesTypeError(em[n].threat.source)}

\* C26 as stated: a stage of analyze_pcap that raises (statistics, network
\* graph, timeline, threat detection, risk scoring) leaves the request with
\* an analysis result, never aborted; and inside ThreatDetector.analyze a rule
\* that raises does not prevent the remaining rules and the risk scorer from
\* running, so every emission that does not raise is in the threat list and
\* the risk score is the score of that list.
C26_AsStated ==
    /\ pc # "aborted"
    /\ (pc \in {"done", "returned"} /\ error # "none") =>
           LET em == Emissions(ret["packets"], ret["statistics"])
           IN  /\ Len(threats) = Len(em) - Cardinality(RaisingEmissions(em))
               /\ risk_score = _calculate_risk_score(threats)

Labeled(pd) == SelectSeq(pd, LAMBDA q : Get(q, "protocol", None) # None)

Abs(n) == IF n >= 0 THEN n ELSE 0 - n

\* C27 as stated: in the statistics' protocol_breakdown each label's
\* percentage is its count divided by the number of packets that have a
\* resolved protocol label (not by the total packet count), times 100 and
\* rounded to one decimal; so when at least one packet is labeled the
\* percentages add up to 100 up to rounding.
C27_AsStated ==
    ("statistics" \in DOMAIN ret /\ packet_data # <<>>) =>
        LET pb == ret["statistics"].protocol_breakdown
            labeled == Len(Labeled(packet_data))
            total == SeqSum([i \in DOMAIN pb |-> pb[i][2].percentage])
        IN  /\ \A i \in DOMAIN pb :
                   pb[i][2].percentage = RoundDiv(pb[i][2].count * 100, labeled, 10)
            /\ labeled > 0 => 2 * Abs(total - 1000) <= Len(pb)

LinkKeys(g) == {<<g.links[i].source, g.links[i].target>> : i \in DOMAIN g.links}

(* every link is a flow and every flow a link, with the flow's packets and bytes *)
LinksAreFlows(g, fl) ==
    /\ LinkKeys(g) = DOMAIN fl
    /\ \A i \in DOMAIN g.links :
           LET k == <<g.links[i].source, g.links[i].target>>
           IN  /\ g.links[i].packets = Len(fl[k])
               /\ g.links[i].size = LengthSum(fl[k])

\* C28 as stated: for any packet sequence the links' (source, target) pairs
\* are the keys of get_flows(), each link's packets and size are the packet
\* count and the summed length of that flow, and statistics.flows_count
\* equals the number of links.
C28_AsStated ==
    HasGraph =>
        /\ LinksAreFlows(ret["network_graph"], ret["flows"])
        /\ "flows_count" \in DOMAIN ret["statistics"]
        /\ ret["statistics"].flows_count = Len(ret["network_graph"].links)

\* C28 amended: as stated for a non-empty packet sequence; for an empty one
\* there are no links and no flows, and get_statistics returns {} with no
\* flows_count in it.
C28_LinksAreFlows ==
    HasGraph =>
        /\ LinksAreFlows(ret["network_graph"], ret["flows"])
        /\ IF packet_data # <<>>
           THEN ret["statistics"].flows_count = Len(ret["network_graph"].links)
           ELSE /\ ret["statistics"] = EmptyDict
                /\ ret["network_graph"].links = <<>>
                /\ ret["flows"] = EmptyDict

\* two links, one of them carrying packets of both directions, next to a
\* packet with no endpoints
C28_Witness ==
    /\ HasGraph
    /\ Len(ret["network_graph"].links) >= 2
    /\ \E i \in DOMAIN ret["network_graph"].links :
           ret["network_graph"].links[i].packets >= 2
    /\ ret["statistics"].flows_count = 2

Earliest(ps) ==
    CHOOSE m \in {ps[i].timestamp : i \in DOMAIN ps} :
        \A i \in DOMAIN ps : m <= ps[i].timestamp

Latest(ps) ==
    CHOOSE m \in {ps[i].timestamp : i \in DOMAIN ps} :
        \A i \in DOMAIN ps : m >= ps[i].timestamp

(* the rows' size_kb added up, in hundredths of a KiB *)
RowSizes(tl) == SeqSum([m \in DOMAIN tl.timeline |-> tl.timeline[m].size_kb])

(* packets counted once each, the untimed ones left out of the time range; *)
(* an empty timeline when nothing is timed                                  *)
TimelineCounts(tl, timed) ==
    IF timed = <<>>
    THEN tl = [timeline |-> <<>>, start_time |-> 0, end_time |-> 0]
    ELSE /\ RowPackets(tl) = Len(timed)
         /\ tl.start_time = Earliest(timed)
         /\ tl.end_time = Latest(timed)

\* C29 as stated: the packets fields of the returned buckets add up to the
\* number of packets with a present, non-zero timestamp and the buckets' byte
\* volume adds up to the summed length of those packets; a packet with
\* timestamp 0 or none is in no bucket and does not influence start_time;
\* with no usable timestamp the timeline is empty with start_time =
\* end_time = 0.
C29_AsStated ==
    "timeline" \in DOMAIN ret =>
        LET tl == ret["timeline"]
            timed == Timed(packet_data)
        IN  /\ TimelineCounts(tl, timed)
            /\ RowSizes(tl) * KiB = LengthSum(timed) * 100

\* C29 amended: as stated for the packet counts and the time range; the byte
\* volume a returned bucket carries is size_kb, the summed length of its
\* packets divided by 1024 and rounded to two decimals, so the buckets'
\* volumes add up to the summed length only up to that rounding.
C29_TimelineCounts ==
    "timeline" \in DOMAIN ret =>
        LET tl == ret["timeline"]
            timed == Timed(packet_data)
        IN  /\ TimelineCounts(tl, timed)
            /\ \A m \in DOMAIN tl.timeline :
                   LET row == tl.timeline[m]
                       inside == SelectSeq(timed, LAMBDA q :
                           tl.start_time * MaxBuckets
                               + IdxOf(q, tl) * BucketSizeC(tl.total_duration) = row.time_c)
                   IN  /\ row.packets = Len(inside)
                       /\ 2 * Abs(row.size_kb * KiB - LengthSum(inside) * 100) <= KiB

\* two buckets whose rounded volumes do not add up to the bytes, next to a
\* packet of timestamp 0
C29_Witness ==
    /\ "timeline" \in DOMAIN ret
    /\ Len(ret["timeline"].timeline) >= 2
    /\ Len(Timed(packet_data)) < Len(packet_data)
    /\ RowSizes(ret["timeline"]) * KiB # LengthSum(Timed(packet_data)) * 100

(* the request has finished: response sent or HTTPException raised *)
Finished == pc \in {"responded", "rejected", "aborted", "failed"}

\* C30 as stated: whenever analyze_pcap created the temporary capture file,
\* the file has been deleted by the time the request finishes, on every exit
\* path: successful analysis, decode failure, packet-extraction failure and
\* any unexpected exception.
C30_AsStated ==
    (Finished /\ tmp_file # NoFile) => tmp_file = "deleted"

====
